---- MODULE Spec2Model ----
(***************************************************************************)
(* The two demo HTTP services of mono-repo-test ("api" and "worker") as a  *)
(* state machine.  One behaviour is one run of one binary: the api service *)
(* (src/svc/api/main.go, and its earlier form in src/unnamed/part_001) or  *)
(* the worker service (worker.Run and the stand-alone worker main, both in *)
(* src/pkg/shared/response.go).                                            *)
(*                                                                         *)
(* net/http serves every request on its own goroutine, so a handler is a   *)
(* small process: each access to an atomic (ready, forceFail, inflight) is *)
(* one step, and the response is delivered when the handler returns.       *)
(* Sleeps are steps that take an unknown amount of time; the durations are *)
(* kept as data (milliseconds).  A failure of http.ListenAndServe is not   *)
(* modelled: the listener is assumed bound for the whole run.              *)
(***************************************************************************)
EXTENDS Integers, Sequences, FiniteSets, Bags

\* Number of requests the server works on at the same time.
MaxReq == 2
\* Number of 100 ms naps of the api drain loop that a run follows.
MaxPolls == 1
\* Number of ticks of the worker's background loop that a run follows.
MaxBatch == 1

\* Durations in milliseconds.
ApiStartupDelay == 3000
WorkerWarmup == 2000
DrainDeadline == 10000
DrainPoll == 100
WorkerFlush == 2000

\* Capacity of the channel sig.
SigCap == 1

Builds == {"api", "api_part", "worker", "worker_main"}

IsApi(b) == b \in {"api", "api_part"}

Methods == {"GET", "POST"}

Paths == {"/", "/healthz", "/healthz/fail", "/healthz/recover",
          "/slow", "/protected", "/env", "/probe"}

\* The request lines sent: GET on every path that is read and POST on every
\* path that is written, with POST / for a path no POST pattern matches.
Lines ==
    {l \in Methods \X Paths :
        \/ l[1] = "GET" /\ l[2] \notin {"/healthz/fail", "/healthz/recover"}
        \/ l[1] = "POST" /\ l[2] \in {"/", "/healthz", "/healthz/fail", "/healthz/recover"}}

\* Kinds of X-Unkey-Principal header value: absent or empty, a JSON object,
\* the JSON literal null, and any other text (JSON of another type, such
\* as an array or a number, or no JSON at all).
Principals == {"", "object", "null", "text"}

\* Outcomes of client.Get(peer + "/healthz"): an error, or a response with
\* some status code.
ProbeResults ==
    { [err |-> TRUE, code |-> 0],
      [err |-> FALSE, code |-> 200],
      [err |-> FALSE, code |-> 503] }

Pat(m, p, h) == [m |-> m, p |-> p, h |-> h]

\* The routes registered by the api service and by its earlier form.
ApiPartPatterns ==
    { Pat("GET", "/", "root"),
      Pat("GET", "/healthz", "healthz"),
      Pat("POST", "/healthz", "healthz"),
      Pat("POST", "/healthz/fail", "fail"),
      Pat("POST", "/healthz/recover", "recover"),
      Pat("GET", "/slow", "slow") }

ApiPatterns ==
    ApiPartPatterns \cup
    { Pat("GET", "/protected", "protected"),
      Pat("GET", "/env", "env"),
      Pat("GET", "/probe", "probe") }

\* The routes registered by the worker's stand-alone main and by worker.Run.
WorkerMainPatterns ==
    { Pat("GET", "/healthz", "healthz"),
      Pat("POST", "/healthz/fail", "fail"),
      Pat("POST", "/healthz/recover", "recover"),
      Pat("GET", "/", "root") }

WorkerPatterns ==
    WorkerMainPatterns \cup { Pat("GET", "/probe", "probe") }

Patterns(b) ==
    CASE b = "api" -> ApiPatterns
      [] b = "api_part" -> ApiPartPatterns
      [] b = "worker" -> WorkerPatterns
      [] b = "worker_main" -> WorkerMainPatterns

\* A pattern path ending in "/" matches every path below it; any other
\* pattern path matches that path alone.
PathMatches(pp, p) == pp = p \/ pp = "/"

\* http.ServeMux: the most specific pattern of the request's method wins;
\* a path that only patterns of other methods match is answered 405.
Route(b, m, p) ==
    LET byPath == {pat \in Patterns(b) : PathMatches(pat.p, p)}
        cands == {pat \in byPath : pat.m = m}
        exact == {pat \in cands : pat.p = p}
    IN  IF cands = {} THEN (IF byPath = {} THEN "notfound" ELSE "notallowed")
        ELSE IF exact # {} THEN (CHOOSE pat \in exact : TRUE).h
        ELSE (CHOOSE pat \in cands : TRUE).h

VARIABLES
    build,      \* which binary runs
    peerURL,    \* WORKER_URL (api) or API_URL (worker): "" or an address
    ready,      \* atomic.Bool ready
    forceFail,  \* atomic.Bool forceFail
    inflight,   \* atomic.Int64 inflight (api)
    warm,       \* the warm-up goroutine: "sleeping" or "done"
    sigch,      \* signals queued in the channel sig (capacity 1)
    shut,       \* the shutdown goroutine: its position and the time it slept
    batch,      \* the worker's background loop counter
    reqs,       \* the requests being served: a bag of handler states
    exit,       \* "running", or the code the process exited with
    answered    \* a /healthz answer other than not_ready has been delivered

vars == <<build, peerURL, ready, forceFail, inflight, warm, sigch, shut,
          batch, reqs, exit, answered>>

\* What a handler passes to shared.JSON (or encodes itself): the status code,
\* the "status" field and, for /protected, how the principal is echoed.
Echo(code, status, echo) == [code |-> code, status |-> status, echo |-> echo]

Ans(code, status) == Echo(code, status, "-")

NoAns == Ans(0, "-")

\* A handler's goroutine: its position, its request line, the principal
\* header it has read (GET /protected) and the response it has written.
Req(pc, m, p, hdr, ans) == [pc |-> pc, m |-> m, p |-> p, hdr |-> hdr, ans |-> ans]

\* The requests being served.
Serving == BagToSet(reqs)

Running == exit = "running"

Exited == exit # "running"

StartupDelay(b) == IF IsApi(b) THEN ApiStartupDelay ELSE WorkerWarmup

\* Values of the peer URL variable; the binaries without /probe never read it.
PeerURLs(b) == IF b \in {"api", "worker"} THEN {"", "http://peer"} ELSE {""}

Init ==
    /\ build \in Builds
    /\ peerURL \in PeerURLs(build)
    /\ ready = FALSE
    /\ forceFail = FALSE
    /\ inflight = 0
    /\ warm = [pc |-> "sleeping", slept |-> 0]
    /\ sigch = 0
    /\ shut = [pc |-> "wait", slept |-> 0, fired |-> FALSE]
    /\ batch = 0
    /\ reqs = EmptyBag
    /\ exit = "running"
    /\ answered = FALSE


\* ------------------------------------------------------------------------
\* Handlers.  A request is served on a goroutine of its own from its
\* arrival to the delivery of its response.

\* A handler starts on a new request.
Begin(m, p, hdr, pc, ans) ==
    reqs' = reqs (+) SetToBag({Req(pc, m, p, hdr, ans)})

\* The handler in state s goes on to position pc.
Move(s, pc, ans) ==
    reqs' = (reqs (-) SetToBag({s})) (+) SetToBag({Req(pc, s.m, s.p, s.hdr, ans)})

\* The handler in state s has returned.
Done(s) == reqs' = reqs (-) SetToBag({s})

\* The server takes a request for handler h.
Arrives(m, p, h) ==
    /\ Running
    /\ BagCardinality(reqs) < MaxReq
    /\ Route(build, m, p) = h

\* A request that matches no pattern of its method: ServeMux answers 405
\* (404 if no pattern matches the path at all).
Reject(m, p) ==
    /\ Running
    /\ BagCardinality(reqs) < MaxReq
    /\ Route(build, m, p) \in {"notallowed", "notfound"}
    /\ Begin(m, p, "", "respond",
             IF Route(build, m, p) = "notallowed" THEN Ans(405, "-") ELSE Ans(404, "-"))
    /\ UNCHANGED <<build, peerURL, ready, forceFail, inflight, warm, sigch,
                   shut, batch, exit, answered>>

\* The healthz handler with the readiness test inverted.
ReadyBranchInverted(rdy) == IF rdy THEN Ans(503, "not_ready") ELSE NoAns

\* First branch of the healthz handler, on the value of ready.Load().
ReadyBranch(rdy) == IF ~rdy THEN Ans(503, "not_ready") ELSE NoAns

\* The healthz handler without its forced-failure branch.
FailBranchIgnored(ff) == Ans(200, "healthy")

\* Second and third branch, on the value of forceFail.Load().
FailBranch(ff) == IF ff THEN Ans(503, "unhealthy") ELSE Ans(200, "healthy")

\* GET|POST /healthz begins: ready.Load().
HealthzReady(m, p) ==
    /\ Arrives(m, p, "healthz")
    /\ IF ReadyBranch(ready) # NoAns
         THEN Begin(m, p, "", "respond", ReadyBranch(ready))
         ELSE Begin(m, p, "", "hz_fail", NoAns)
    /\ UNCHANGED <<build, peerURL, ready, forceFail, inflight, warm, sigch,
                   shut, batch, exit, answered>>

\* /healthz goes on: forceFail.Load().
HealthzFail(s) ==
    /\ Running
    /\ s \in Serving
    /\ s.pc = "hz_fail"
    /\ Move(s, "respond", FailBranch(forceFail))
    /\ UNCHANGED <<build, peerURL, ready, forceFail, inflight, warm, sigch,
                   shut, batch, exit, answered>>

\* The value POST /healthz/fail stores in forceFail.
FailStore == TRUE

\* /healthz/recover storing what /healthz/fail stores.
RecoverStoreSwapped == TRUE

\* The value POST /healthz/recover stores in forceFail.
RecoverStore == FALSE

\* POST /healthz/fail: forceFail.Store(true).
ToggleFail(m, p) ==
    /\ Arrives(m, p, "fail")
    /\ forceFail' = FailStore
    /\ Begin(m, p, "", "respond", Ans(200, "ok"))
    /\ UNCHANGED <<build, peerURL, ready, inflight, warm, sigch, shut, batch,
                   exit, answered>>

\* POST /healthz/recover: forceFail.Store(false).
ToggleRecover(m, p) ==
    /\ Arrives(m, p, "recover")
    /\ forceFail' = RecoverStore
    /\ Begin(m, p, "", "respond", Ans(200, "ok"))
    /\ UNCHANGED <<build, peerURL, ready, inflight, warm, sigch, shut, batch,
                   exit, answered>>

\* The handlers of the api service that begin with inflight.Add(1) and
\* defer inflight.Add(-1).
Counted(b) ==
    CASE b = "api" -> {"root", "slow", "protected"}
      [] b = "api_part" -> {"root", "slow"}
      [] OTHER -> {}

\* The positions between a counted handler's Add(1) and its Add(-1).
CountedPcs == {"root", "slow", "protected"}

\* /protected entered without inflight.Add(1).
EnterDeltaUncounted(b, h) == IF h \in {"root", "slow"} /\ IsApi(b) THEN 1 ELSE 0

EnterDelta(b, h) == IF h \in Counted(b) THEN 1 ELSE 0

\* A counted handler without its deferred Add(-1).
LeaveDeltaForgotten(b, h) == 0

LeaveDelta(b, h) == IF h \in Counted(b) THEN -1 ELSE 0

\* GET / (and every GET path no other pattern matches) begins.
RootEnter(m, p) ==
    /\ Arrives(m, p, "root")
    /\ inflight' = inflight + EnterDelta(build, "root")
    /\ IF "root" \in Counted(build)
         THEN Begin(m, p, "", "root", NoAns)
         ELSE Begin(m, p, "", "respond", Ans(200, "ok"))
    /\ UNCHANGED <<build, peerURL, ready, forceFail, warm, sigch, shut, batch,
                   exit, answered>>

\* GET / of the api writes its response; the deferred Add(-1) runs.
RootLeave(s) ==
    /\ Running
    /\ s \in Serving
    /\ s.pc = "root"
    /\ inflight' = inflight + LeaveDelta(build, "root")
    /\ Move(s, "respond", Ans(200, "ok"))
    /\ UNCHANGED <<build, peerURL, ready, forceFail, warm, sigch, shut, batch,
                   exit, answered>>

\* GET /slow begins and sleeps.
SlowEnter(m, p) ==
    /\ Arrives(m, p, "slow")
    /\ inflight' = inflight + EnterDelta(build, "slow")
    /\ Begin(m, p, "", "slow", NoAns)
    /\ UNCHANGED <<build, peerURL, ready, forceFail, warm, sigch, shut, batch,
                   exit, answered>>

\* GET /slow wakes up and writes its response; the deferred Add(-1) runs.
SlowLeave(s) ==
    /\ Running
    /\ s \in Serving
    /\ s.pc = "slow"
    /\ inflight' = inflight + LeaveDelta(build, "slow")
    /\ Move(s, "respond", Ans(200, "ok"))
    /\ UNCHANGED <<build, peerURL, ready, forceFail, warm, sigch, shut, batch,
                   exit, answered>>

\* json.Unmarshal([]byte(principal), &parsed) with parsed a map[string]any
\* returns no error: for an object, and for null, which leaves the map nil.
UnmarshalOK(hdr) == hdr \in {"object", "null"}

\* The three exits of the /protected handler.
ProtectedAnswer(hdr) ==
    IF hdr = "" THEN Ans(401, "unauthorized")
    ELSE IF ~UnmarshalOK(hdr) THEN Echo(200, "ok", "raw")
    ELSE Echo(200, "authenticated", "parsed")

\* GET /protected begins.
ProtectedEnter(m, p, hdr) ==
    /\ Arrives(m, p, "protected")
    /\ inflight' = inflight + EnterDelta(build, "protected")
    /\ Begin(m, p, hdr, "protected", NoAns)
    /\ UNCHANGED <<build, peerURL, ready, forceFail, warm, sigch, shut, batch,
                   exit, answered>>

\* GET /protected writes its response; the deferred Add(-1) runs.
ProtectedLeave(s) ==
    /\ Running
    /\ s \in Serving
    /\ s.pc = "protected"
    /\ inflight' = inflight + LeaveDelta(build, "protected")
    /\ Move(s, "respond", ProtectedAnswer(s.hdr))
    /\ UNCHANGED <<build, peerURL, ready, forceFail, warm, sigch, shut, batch,
                   exit, answered>>

\* GET /env: the environment as JSON, with the implicit status 200.
Env(m, p) ==
    /\ Arrives(m, p, "env")
    /\ Begin(m, p, "", "respond", Ans(200, "-"))
    /\ UNCHANGED <<build, peerURL, ready, forceFail, inflight, warm, sigch,
                   shut, batch, exit, answered>>

\* The answer of /probe when the peer URL is empty.
ProbeSkipped == Ans(200, "skipped")

\* The answer of /probe after client.Get returned res.
ProbeAnswer(res) ==
    IF res.err THEN Ans(200, "isolated") ELSE Ans(200, "NOT_ISOLATED")

\* GET /probe begins: os.Getenv, then the outbound call if a URL is set.
ProbeEnter(m, p) ==
    /\ Arrives(m, p, "probe")
    /\ IF peerURL = ""
         THEN Begin(m, p, "", "respond", ProbeSkipped)
         ELSE Begin(m, p, "", "probe", NoAns)
    /\ UNCHANGED <<build, peerURL, ready, forceFail, inflight, warm, sigch,
                   shut, batch, exit, answered>>

\* client.Get returns.
ProbeReturn(s, res) ==
    /\ Running
    /\ s \in Serving
    /\ s.pc = "probe"
    /\ Move(s, "respond", ProbeAnswer(res))
    /\ UNCHANGED <<build, peerURL, ready, forceFail, inflight, warm, sigch,
                   shut, batch, exit, answered>>

\* A /healthz answer other than not_ready.
PastWarmup(s) == s.p = "/healthz" /\ s.ans.status \in {"healthy", "unhealthy"}

\* The handler has returned: its response reaches the client.
Respond(s) ==
    /\ Running
    /\ s \in Serving
    /\ s.pc = "respond"
    /\ Done(s)
    /\ answered' = (answered \/ PastWarmup(s))
    /\ UNCHANGED <<build, peerURL, ready, forceFail, inflight, warm, sigch,
                   shut, batch, exit>>


\* ------------------------------------------------------------------------
\* Goroutines started by main / Run.

\* The warm-up goroutine: time.Sleep(delay); ready.Store(true).
WarmUp ==
    /\ Running
    /\ warm.pc = "sleeping"
    /\ warm' = [pc |-> "done", slept |-> StartupDelay(build)]
    /\ ready' = TRUE
    /\ UNCHANGED <<build, peerURL, forceFail, inflight, sigch, shut, batch,
                   reqs, exit, answered>>

\* The process is sent SIGTERM, SIGINT or SIGQUIT; signal.Notify queues it
\* unless the channel is full.  Signals sent after the goroutine has taken
\* one are queued and never read; they are left out.
Signal ==
    /\ Running
    /\ shut.pc = "wait"
    /\ sigch < SigCap
    /\ sigch' = sigch + 1
    /\ UNCHANGED <<build, peerURL, ready, forceFail, inflight, warm, shut,
                   batch, reqs, exit, answered>>

\* The worker given the api's drain loop.
ShutdownStartAllDrain(b) == "drain"

\* What the shutdown goroutine does once it has a signal.
ShutdownStart(b) == IF IsApi(b) THEN "drain" ELSE "flush"

\* s := <-sig.  The api arms its deadline timer and enters the drain loop;
\* the worker starts its flush sleep.
ShutdownRecv ==
    /\ Running
    /\ shut.pc = "wait"
    /\ sigch > 0
    /\ sigch' = sigch - 1
    /\ shut' = [shut EXCEPT !.pc = ShutdownStart(build)]
    /\ UNCHANGED <<build, peerURL, ready, forceFail, inflight, warm, batch,
                   reqs, exit, answered>>

\* The timer of time.After(10 * time.Second) fires.
DeadlineFire ==
    /\ Running
    /\ shut.pc \in {"drain", "nap"}
    /\ ~shut.fired
    /\ shut' = [shut EXCEPT !.fired = TRUE]
    /\ UNCHANGED <<build, peerURL, ready, forceFail, inflight, warm, sigch,
                   batch, reqs, exit, answered>>

\* The drain loop without the deadline case.
DrainNextNoDeadline(n, fired) == IF ~(n > 0) THEN "clean" ELSE "nap"

\* One pass of the drain loop on n == inflight.Load(): leave the loop,
\* take the deadline case of the select, or take its default case.
DrainNext(n, fired) ==
    IF ~(n > 0) THEN "clean" ELSE IF fired THEN "timeout" ELSE "nap"

\* The drain loop tests its condition and, if it holds, runs the select.
DrainCheck ==
    /\ Running
    /\ shut.pc = "drain"
    /\ DrainNext(inflight, shut.fired) = "nap" => shut.slept < MaxPolls * DrainPoll
    /\ shut' = [shut EXCEPT !.pc = DrainNext(inflight, shut.fired)]
    /\ UNCHANGED <<build, peerURL, ready, forceFail, inflight, warm, sigch,
                   batch, reqs, exit, answered>>

\* time.Sleep(100 * time.Millisecond) of the drain loop returns; by then
\* the deadline has passed if the naps add up to it.
DrainWake ==
    /\ Running
    /\ shut.pc = "nap"
    /\ shut' = [pc |-> "drain", slept |-> shut.slept + DrainPoll,
                fired |-> (shut.fired \/ shut.slept + DrainPoll >= DrainDeadline)]
    /\ UNCHANGED <<build, peerURL, ready, forceFail, inflight, warm, sigch,
                   batch, reqs, exit, answered>>

\* time.Sleep(2 * time.Second) of the worker's shutdown goroutine returns.
FlushWake ==
    /\ Running
    /\ shut.pc = "flush"
    /\ shut' = [shut EXCEPT !.pc = "clean", !.slept = shut.slept + WorkerFlush]
    /\ UNCHANGED <<build, peerURL, ready, forceFail, inflight, warm, sigch,
                   batch, reqs, exit, answered>>

\* The code the shutdown goroutine passes to os.Exit at position pc.
ExitCode(pc) == IF pc = "timeout" THEN "exit 1" ELSE "exit 0"

\* os.Exit: the process is gone, with every request it was serving.
Exit ==
    /\ Running
    /\ shut.pc \in {"clean", "timeout"}
    /\ exit' = ExitCode(shut.pc)
    /\ UNCHANGED <<build, peerURL, ready, forceFail, inflight, warm, sigch,
                   shut, batch, reqs, answered>>

\* The worker's background loop: one tick, batch++.
BackgroundTick ==
    /\ Running
    /\ ~IsApi(build)
    /\ batch < MaxBatch
    /\ batch' = batch + 1
    /\ UNCHANGED <<build, peerURL, ready, forceFail, inflight, warm, sigch,
                   shut, reqs, exit, answered>>

\* ------------------------------------------------------------------------

Request ==
    \E l \in Lines :
        \/ Reject(l[1], l[2])
        \/ RootEnter(l[1], l[2])
        \/ HealthzReady(l[1], l[2])
        \/ ToggleFail(l[1], l[2])
        \/ ToggleRecover(l[1], l[2])
        \/ SlowEnter(l[1], l[2])
        \/ \E hdr \in Principals : ProtectedEnter(l[1], l[2], hdr)
        \/ Env(l[1], l[2])
        \/ ProbeEnter(l[1], l[2])

Progress ==
    \E s \in Serving :
        \/ HealthzFail(s)
        \/ RootLeave(s)
        \/ SlowLeave(s)
        \/ ProtectedLeave(s)
        \/ \E res \in ProbeResults : ProbeReturn(s, res)
        \/ Respond(s)

Shutdown ==
    \/ ShutdownRecv
    \/ DrainCheck
    \/ DrainWake
    \/ FlushWake
    \/ Exit

Next ==
    \/ Request
    \/ Progress
    \/ WarmUp
    \/ Signal
    \/ DeadlineFire
    \/ Shutdown
    \/ BackgroundTick

Spec == Init /\ [][Next]_vars

\* The api service alone, with the scheduling its shutdown goroutine can
\* count on: a runnable goroutine is run, a sleep returns, a timer fires.
\* Nothing is assumed of the requests: they may keep arriving or hang.
InitApi == Init /\ IsApi(build)

NextApi ==
    \/ Request
    \/ Progress
    \/ WarmUp
    \/ Signal
    \/ DeadlineFire
    \/ ShutdownRecv
    \/ DrainCheck
    \/ DrainWake
    \/ Exit

DrainFairness ==
    /\ WF_vars(ShutdownRecv)
    /\ WF_vars(DeadlineFire)
    /\ WF_vars(DrainCheck)
    /\ WF_vars(DrainWake)
    /\ WF_vars(Exit)

ApiSpec == InitApi /\ [][NextApi]_vars /\ DrainFairness


\* ------------------------------------------------------------------------
\* Properties.

\* The handler that serves the request of s.
HandlerOf(s) == Route(build, s.m, s.p)

\* In this step a handler starts on a new request, in state t.
Begins(t) == reqs' = reqs (+) SetToBag({t})

\* In this step the handler in state s goes on to state t.
Steps(s, t) == s # t /\ reqs' = (reqs (-) SetToBag({s})) (+) SetToBag({t})

\* In this step the response of the handler in state s reaches the client.
Completes(s) == s.pc = "respond" /\ reqs' = reqs (-) SetToBag({s})

\* The handler h has written its response in state s.
Pending(s, h) == s.pc = "respond" /\ HandlerOf(s) = h

HealthzAnswers ==
    {Ans(503, "not_ready"), Ans(503, "unhealthy"), Ans(200, "healthy")}

C1_State ==
    \A s \in Serving :
        Pending(s, "healthz") =>
            /\ s.ans \in HealthzAnswers
            /\ s.ans.status \in {"unhealthy", "healthy"} => ready

C1_Step ==
    /\ \A t \in BagToSet(reqs') :
          (Begins(t) /\ HandlerOf(t) = "healthz") =>
              IF ~ready
                THEN t.pc = "respond" /\ t.ans = Ans(503, "not_ready")
                ELSE t.pc = "hz_fail"
    /\ \A s \in Serving, t \in BagToSet(reqs') :
          (s.pc = "hz_fail" /\ Steps(s, t)) =>
              /\ ready
              /\ t.pc = "respond"
              /\ t.ans = IF forceFail THEN Ans(503, "unhealthy")
                         ELSE Ans(200, "healthy")

\* C1: in every binary the healthz handler answers 503 not_ready when it
\* reads ready false (whatever forceFail is), 503 unhealthy when it reads
\* ready true and then forceFail true, and 200 healthy only when it reads
\* ready true and forceFail false.
C1_HealthzThreeBranches == [](C1_State) /\ [][C1_Step]_vars

\* C1 witness: a POST /healthz of the api answered 503 unhealthy, with both
\* flags true.
C1_Witness ==
    /\ build = "api"
    /\ ready
    /\ forceFail
    /\ \E s \in Serving :
          /\ Pending(s, "healthz")
          /\ s.m = "POST"
          /\ s.ans = Ans(503, "unhealthy")

IsFail(s) == s.m = "POST" /\ s.p = "/healthz/fail"

IsRecover(s) == s.m = "POST" /\ s.p = "/healthz/recover"

\* C2 as claimed: when a POST /healthz/fail completes the flag is true, and
\* when a POST /healthz/recover completes it is false (the flag follows
\* the most recently completed of the two).
C2_FlagFollowsLastCompleted ==
    [][\A s \in Serving :
          Completes(s) =>
              /\ IsFail(s) => forceFail' = TRUE
              /\ IsRecover(s) => forceFail' = FALSE]_vars

C2_State ==
    \A s \in Serving :
        /\ (Pending(s, "fail") \/ Pending(s, "recover")) => s.ans = Ans(200, "ok")
        /\ HandlerOf(s) = "fail" <=> IsFail(s)
        /\ HandlerOf(s) = "recover" <=> IsRecover(s)

C2_Step ==
    /\ \A t \in BagToSet(reqs') :
          /\ (Begins(t) /\ IsFail(t)) => forceFail' = TRUE /\ t.pc = "respond"
          /\ (Begins(t) /\ IsRecover(t)) => forceFail' = FALSE /\ t.pc = "respond"
    /\ (\A t \in BagToSet(reqs') : Begins(t) => ~IsFail(t) /\ ~IsRecover(t)) =>
          forceFail' = forceFail

\* C2 (amended): the flag is true exactly when the most recent store by
\* POST /healthz/fail or POST /healthz/recover was /healthz/fail's: the
\* fail handler stores true and the recover handler stores false, whatever
\* the flag and ready were, both answer 200, and no other step changes it.
C2_FlagFollowsLastStore == [](C2_State) /\ [][C2_Step]_vars

\* C2 witness: a fail and a recover request in progress together, recover
\* having stored last, before warm-up.
C2_Witness ==
    /\ ~ready
    /\ ~forceFail
    /\ \E s, t \in Serving : Pending(s, "fail") /\ Pending(t, "recover")

\* C3 as claimed: once /healthz has answered something other than
\* not_ready, no not_ready answer is delivered any more.
C3_NeverNotReadyAgain ==
    [][\A s \in Serving :
          (answered /\ Completes(s) /\ HandlerOf(s) = "healthz") =>
              s.ans.status # "not_ready"]_vars

C3_State ==
    /\ warm.pc = "sleeping" => ~ready /\ warm.slept = 0
    /\ warm.pc = "done" => ready /\ warm.slept = StartupDelay(build)
    /\ answered => ready

C3_Step ==
    /\ ready => ready'
    /\ ready' # ready => warm.pc = "sleeping" /\ warm'.pc = "done"
    /\ \A t \in BagToSet(reqs') :
          (ready /\ Begins(t) /\ HandlerOf(t) = "healthz") =>
              t.pc = "hz_fail" /\ t.ans.status # "not_ready"

\* C3 (amended): ready starts false, is set to true once, by the warm-up
\* goroutine after its delay, and is never set back; so a /healthz request
\* that begins once ready is true - in particular once /healthz has
\* answered something other than not_ready - never answers not_ready.  (A
\* request that read ready before the store may still deliver not_ready
\* after that.)
C3_ReadyIsMonotone == [](C3_State) /\ [][C3_Step]_vars

\* C3 witness: a healthy answer is written after an earlier answer other
\* than not_ready was delivered.
C3_Witness ==
    /\ answered
    /\ warm.pc = "done"
    /\ \E s \in Serving : Pending(s, "healthz") /\ s.ans = Ans(200, "healthy")

\* The requests between the Add(1) and the deferred Add(-1) of a counted
\* handler, in bag b.
InCounted(b) == [s \in {x \in BagToSet(b) : x.pc \in CountedPcs} |-> b[s]]

\* In this step a request enters a counted handler, in state t.
Entered(t) == Begins(t) /\ t.pc \in CountedPcs

\* In this step the counted handler in state s runs its deferred Add(-1).
Left(s, t) == s.pc \in CountedPcs /\ Steps(s, t)

\* C4 as claimed: only two handlers of the api, GET / and GET /slow, change
\* the counter.
C4_TwoHandlers ==
    [][inflight' # inflight =>
          \/ \E t \in BagToSet(reqs') :
                Entered(t) /\ HandlerOf(t) \in {"root", "slow"}
          \/ \E s \in Serving, t \in BagToSet(reqs') :
                Left(s, t) /\ HandlerOf(s) \in {"root", "slow"}]_vars

C4_Step ==
    /\ \A t \in BagToSet(reqs') :
          /\ Entered(t) =>
                /\ inflight' = inflight + 1
                /\ IsApi(build)
                /\ HandlerOf(t) \in {"root", "slow", "protected"}
          /\ (Begins(t) /\ IsApi(build)
                /\ HandlerOf(t) \in {"root", "slow", "protected"}) => Entered(t)
    /\ \A s \in Serving, t \in BagToSet(reqs') :
          Left(s, t) => inflight' = inflight - 1 /\ t.pc = "respond"
    /\ inflight' # inflight =>
          \/ \E t \in BagToSet(reqs') : Entered(t)
          \/ \E s \in Serving, t \in BagToSet(reqs') : Left(s, t)

\* C4 (amended): in the api the counter is changed by exactly the handlers
\* of GET /, GET /slow and GET /protected (the earlier main registers no
\* /protected, so there GET / and GET /slow); each adds one on entry and
\* takes one off on exit, and no other handler or goroutine changes it.
C4_CountedHandlers == [][C4_Step]_vars

\* C4 witness: GET /protected is being served by the api and is counted.
C4_Witness ==
    /\ build = "api"
    /\ inflight = 1
    /\ \E s \in Serving : s.pc = "protected" /\ s.p = "/protected"

\* C5 as claimed: in both services the shutdown goroutine has slept, for
\* its fixed duration, when the process exits.
C5_FixedSleep ==
    Exited => shut.slept > 0 /\ (~IsApi(build) => shut.slept = WorkerFlush)

\* C5 (amended): the worker's shutdown goroutine sleeps a fixed 2 s after
\* the signal and exits with 0, whatever requests are served.  The api's
\* does not sleep a fixed time: it naps 100 ms at a time while it reads a
\* counter above 0, not at all if the first read is 0 and for at most the
\* 10 s of the deadline; it exits with 1 only after the deadline fired.
C5_ShutdownSleep ==
    /\ (shut.pc = "clean" /\ ~IsApi(build)) => shut.slept = WorkerFlush
    /\ Exited =>
          IF IsApi(build)
            THEN /\ shut.slept % DrainPoll = 0
                 /\ shut.slept <= DrainDeadline
                 /\ exit = "exit 1" => shut.fired
            ELSE /\ exit = "exit 0"
                 /\ shut.slept = WorkerFlush

\* C5 witness: the worker has exited after its 2 s with a request still
\* being served.
C5_Witness ==
    /\ ~IsApi(build)
    /\ exit = "exit 0"
    /\ shut.slept = WorkerFlush
    /\ Serving # {}

\* C6 as claimed: every GET or POST /healthz reaches the healthz handler
\* and is answered with the health status.
C6_HealthzGetAndPost ==
    \A s \in Serving :
        s.p = "/healthz" =>
            /\ HandlerOf(s) = "healthz"
            /\ s.pc = "respond" => s.ans \in HealthzAnswers

\* C7 as claimed: every GET /probe is answered 200 with skipped when the
\* peer URL is empty and with isolated or NOT_ISOLATED when it is set.
C7_ProbeEverywhere ==
    \A s \in Serving :
        (s.m = "GET" /\ s.p = "/probe") =>
            /\ HandlerOf(s) = "probe"
            /\ s.pc = "respond" =>
                  IF peerURL = ""
                    THEN s.ans = Ans(200, "skipped")
                    ELSE s.ans \in {Ans(200, "isolated"), Ans(200, "NOT_ISOLATED")}

\* C8 as claimed: GET /protected of the api answers 401 unauthorized for a
\* missing or empty header, 200 authenticated with the parsed principal
\* for a JSON object, and 200 ok with the raw text for anything else.
C8_ProtectedEcho ==
    \A s \in Serving :
        (build = "api" /\ Pending(s, "protected")) =>
            s.ans =
                CASE s.hdr = "" -> Ans(401, "unauthorized")
                  [] s.hdr = "object" -> Echo(200, "authenticated", "parsed")
                  [] OTHER -> Echo(200, "ok", "raw")

C9_Step ==
    /\ (shut.pc = "drain" /\ shut'.pc # "drain") =>
          /\ inflight = 0 => shut'.pc = "clean"
          /\ shut'.pc = "clean" => inflight = 0
          /\ shut'.pc = "timeout" => inflight > 0 /\ shut.fired
          /\ shut'.pc = "nap" => inflight > 0
    /\ shut'.pc = "clean" => shut.pc \in {"drain", "clean"}
    /\ shut'.pc = "timeout" => shut.pc \in {"drain", "timeout"}
    /\ exit' # exit =>
          /\ exit = "running"
          /\ exit' = "exit 0" <=> shut.pc = "clean"
          /\ exit' = "exit 1" <=> shut.pc = "timeout"

\* C9: once the api's shutdown goroutine has a signal the process exits,
\* whatever the requests do: with 0 once the drain loop reads the counter
\* at 0 (without a nap if the first read is 0), and with 1 only when the
\* deadline has fired and the loop still reads a counter above 0.
C9_DrainExits ==
    /\ [][C9_Step]_vars
    /\ (shut.pc # "wait") ~> Exited

\* C9 witness: the api has exited with 1 while a counted request was being
\* served, after a nap.
C9_Witness ==
    /\ exit = "exit 1"
    /\ inflight > 0
    /\ shut.fired
    /\ shut.slept > 0

\* C10: the counter is never negative and equals the number of requests
\* between the Add(1) and the deferred Add(-1) of a counted handler; it is
\* 0 when there is none.
C10_InflightCounts ==
    /\ inflight >= 0
    /\ inflight = BagCardinality(InCounted(reqs))

\* C10 witness: two counted requests of the api at once, the counter at 2.
C10_Witness ==
    /\ build = "api"
    /\ inflight = 2
    /\ \E s, t \in Serving : s.pc = "slow" /\ t.pc = "protected"

\* C11 as claimed: when the api has exited with code 0, no request is between
\* the Add(1) and the deferred Add(-1) of a counted handler at the moment of
\* the exit, however the arrivals interleave with the drain loop's read of
\* the counter and its call of os.Exit.
C11_CleanExitIsDrained ==
    (IsApi(build) /\ exit = "exit 0") =>
        /\ inflight = 0
        /\ BagCardinality(InCounted(reqs)) = 0

====
